---- MODULE Spec2Model ----
(***************************************************************************)
(* AuthService (src/src/auth/auth.service.ts): credential login, social    *)
(* login, registration, e-mail confirmation, forgot/reset password and     *)
(* the profile operations, over the User and Forgot repositories.          *)
(*                                                                         *)
(* A handler whose awaits are all sequential and whose result depends only *)
(* on what it read is one action.  Two places are not: `user.save()` at    *)
(* lines 236 and 298 is called without await, so the write it starts is a  *)
(* floating task that commits on its own (SaveCommit), and resetPassword   *)
(* is a read (ResetFind) followed, after an await, by the ticket's         *)
(* soft delete (ResetSoftDelete).                                          *)
(***************************************************************************)
EXTENDS Integers, Sequences, FiniteSets, TLC

VARIABLES
    users,      \* the User table, a row's id is its index
    forgots,    \* the Forgot table, a row's id is its index
    pending,    \* writes started by an un-awaited user.save(), not yet committed
    reqs,       \* the resetPassword requests in flight
    mails,      \* what mailerService.sendMail was called with
    result,     \* what the last step returned or threw, and for which call
    succeeded,  \* per ticket, how many resetPassword calls returned normally
    confirmed   \* the hashes for which a confirmEmail call returned normally

vars == <<users, forgots, pending, reqs, mails, result, succeeded, confirmed>>

(* ------------------------------ bounds --------------------------------- *)
MaxUsers == 2
MaxForgots == 2
MaxReqs == 2
MaxPending == 2

(* ------------------------------ values --------------------------------- *)
NULL == "null"

\* What callers send and what the provider services return.  "A@x" and "B@x"
\* differ from their stored, lowercased forms; "other" is no AuthProvidersEnum
\* member.

Emails == {"A@x", "b@x"}
Passwords == {"p1", "p2"}
SocialIds == {"42"}
SocialTypes == {"google", "apple", "other"}
Profiles == [id : SocialIds, email : {NULL, "A@x", "B@x"}]
Reqs == 1..MaxReqs

\* String.prototype.toLowerCase on the e-mail values of the model.
toLowerCase(e) == IF e = "A@x" THEN "a@x" ELSE IF e = "B@x" THEN "b@x" ELSE e

\* The User entity's persistence hook: the stored password is a salted hash
\* of the plaintext, never the plaintext.
HashPassword(p) == IF p = NULL THEN NULL ELSE "$2a$" \o p

\* bcrypt.compare(plain, stored): bcryptjs rejects with
\* Error("Illegal arguments") when `stored` is not a string.
bcryptCompare(p, stored) ==
    IF stored = NULL THEN "error"
    ELSE IF stored = HashPassword(p) THEN "match" ELSE "mismatch"

NoToken == [id |-> 0, role |-> NULL]
\* jwtService.sign({ id: user.id, role: user.role })
sign(id, role) == [id |-> id, role |-> role]

NoArgs == [email |-> NULL, password |-> NULL, onlyAdmin |-> FALSE,
           socialType |-> NULL, socialId |-> NULL, hash |-> 0, id |-> 0]

Response(op, outcome, user, token, args) ==
    [op |-> op, outcome |-> outcome, user |-> user, token |-> token, args |-> args]

(* --------------------------- the repositories -------------------------- *)
UserIds == 1..Len(users)
ForgotIds == 1..Len(forgots)

Min(S) == CHOOSE x \in S : \A y \in S : x <= y

\* Repository.findOne: the first row that matches and is not soft-deleted,
\* 0 when there is none.
FindOne(S) == IF S = {} THEN 0 ELSE Min(S)

Visible == {i \in UserIds : ~users[i].deletedAt}

UsersByEmailRole(e, roles) ==
    {i \in Visible : users[i].email = e /\ users[i].role \in roles}
\* A profile without an e-mail gives findOne({ email: undefined }); it is
\* taken to match no row (an SQL comparison with NULL matches nothing).
UsersByEmail(e) == {i \in Visible : e # NULL /\ users[i].email = e}
UsersBySocial(sid, tag) ==
    {i \in Visible : users[i].socialId = sid /\ users[i].provider = tag}
UsersByHash(h) == {i \in Visible : users[i].hash = h}
ForgotsByHash(h) == {f \in ForgotIds : ~forgots[f].deletedAt /\ forgots[f].hash = h}

\* The unique e-mail of the User table, enforced among the accounts that are
\* not soft-deleted.
EmailInUse(e) == \E i \in Visible : users[i].email = e

NewUser(email, password, role, status, provider, socialId, hash) ==
    [email |-> email, password |-> password, role |-> role, status |-> status,
     provider |-> provider, socialId |-> socialId, hash |-> hash,
     deletedAt |-> FALSE]

\* sha256 of randomStringGenerator(): a value no earlier call returned.  The
\* n-th confirmation hash is 2n and the n-th ticket hash 2n + 1.
randomHash(purpose) ==
    IF purpose = "confirm-email" THEN 2 * (Len(users) + 1)
    ELSE 2 * (Len(forgots) + 1) + 1

AllIdle == \A r \in Reqs : reqs[r].pc = "idle"
IdleReq == [pc |-> "idle", forgot |-> 0, hash |-> 0, password |-> NULL]

(* -------------------------------- Init --------------------------------- *)
\* The store as seeded: one administrator with a password credential.
Init ==
    /\ users = <<NewUser("b@x", HashPassword("p1"), "admin", "active", "email", NULL, 0)>>
    /\ forgots = <<>>
    /\ pending = {}
    /\ reqs = [r \in Reqs |-> IdleReq]
    /\ mails = {}
    /\ result = Response("init", "ok", 0, NoToken, NoArgs)
    /\ succeeded = <<>>
    /\ confirmed = {}

(* ----------------------------- validateLogin --------------------------- *)
\* validateLogin with a lookup that also returns soft-deleted rows.
validateLoginWithDeleted(email, password, onlyAdmin) ==
    LET roles == IF onlyAdmin THEN {"admin"} ELSE {"user"}
        user == FindOne({i \in UserIds : users[i].email = toLowerCase(email)
                                         /\ users[i].role \in roles})
        args == [NoArgs EXCEPT !.email = email, !.password = password,
                               !.onlyAdmin = onlyAdmin]
        isValidPassword == bcryptCompare(password, users[user].password)
    IN  /\ result' =
              IF user = 0
                THEN Response("validateLogin", "NotFound_email", 0, NoToken, args)
              ELSE IF isValidPassword = "match"
                THEN Response("validateLogin", "ok", user,
                              sign(user, users[user].role), args)
              ELSE IF isValidPassword = "mismatch"
                THEN Response("validateLogin", "Invalid_password", 0, NoToken, args)
              ELSE Response("validateLogin", "error", 0, NoToken, args)
        /\ UNCHANGED <<users, forgots, pending, reqs, mails, succeeded, confirmed>>

validateLogin(email, password, onlyAdmin) ==
    LET user == FindOne(UsersByEmailRole(toLowerCase(email),
                                         IF onlyAdmin THEN {"admin"} ELSE {"user"}))
        args == [NoArgs EXCEPT !.email = email, !.password = password,
                               !.onlyAdmin = onlyAdmin]
        isValidPassword == bcryptCompare(password, users[user].password)
    IN  /\ result' =
              IF user = 0
                THEN Response("validateLogin", "NotFound_email", 0, NoToken, args)
              ELSE IF isValidPassword = "match"
                THEN Response("validateLogin", "ok", user,
                              sign(user, users[user].role), args)
              ELSE IF isValidPassword = "mismatch"
                THEN Response("validateLogin", "Invalid_password", 0, NoToken, args)
              ELSE Response("validateLogin", "error", 0, NoToken, args)
        /\ UNCHANGED <<users, forgots, pending, reqs, mails, succeeded, confirmed>>

(* --------------------------- validateSocialLogin ----------------------- *)
\* validateSocialLogin whose identity branch takes the profile's e-mail
\* without looking at userByEmail.
validateSocialLoginAlwaysBackfill(socialType, socialData) ==
    LET args == [NoArgs EXCEPT !.socialType = socialType, !.socialId = socialData.id,
                               !.email = socialData.email]
        email == IF socialData.email = NULL THEN NULL ELSE toLowerCase(socialData.email)
        userByEmail == FindOne(UsersByEmail(email))
        user == FindOne(UsersBySocial(socialData.id, socialType))
        created == Len(users) + 1
    IN  /\ IF socialType \notin {"facebook", "google", "twitter", "apple"}
             THEN /\ result' = Response("validateSocialLogin", "Invalid_socialType",
                                        0, NoToken, args)
                  /\ users' = users
           ELSE IF user # 0
             THEN /\ users' = IF socialData.email # NULL
                                THEN [users EXCEPT ![user].email = email]
                                ELSE users
                  /\ result' = Response("validateSocialLogin", "ok", user,
                                        sign(user, users[user].role), args)
           ELSE IF userByEmail # 0
             THEN /\ users' = users
                  /\ result' = Response("validateSocialLogin", "ok", userByEmail,
                                        sign(userByEmail, users[userByEmail].role), args)
           ELSE   /\ Len(users) < MaxUsers
                  /\ users' = Append(users, NewUser(email, NULL, "user", "active",
                                                    socialType, socialData.id, 0))
                  /\ result' = Response("validateSocialLogin", "ok", created,
                                        sign(created, "user"), args)
        /\ UNCHANGED <<forgots, pending, reqs, mails, succeeded, confirmed>>

\* validateSocialLogin without the `else if (userByEmail)` branch.
validateSocialLoginNoLink(socialType, socialData) ==
    LET args == [NoArgs EXCEPT !.socialType = socialType, !.socialId = socialData.id,
                               !.email = socialData.email]
        email == IF socialData.email = NULL THEN NULL ELSE toLowerCase(socialData.email)
        userByEmail == FindOne(UsersByEmail(email))
        user == FindOne(UsersBySocial(socialData.id, socialType))
        created == Len(users) + 1
    IN  /\ IF socialType \notin {"facebook", "google", "twitter", "apple"}
             THEN /\ result' = Response("validateSocialLogin", "Invalid_socialType",
                                        0, NoToken, args)
                  /\ users' = users
           ELSE IF user # 0
             THEN /\ users' = IF socialData.email # NULL /\ userByEmail = 0
                                THEN [users EXCEPT ![user].email = email]
                                ELSE users
                  /\ result' = Response("validateSocialLogin", "ok", user,
                                        sign(user, users[user].role), args)
           ELSE   /\ Len(users) < MaxUsers
                  /\ users' = Append(users, NewUser(email, NULL, "user", "active",
                                                    socialType, socialData.id, 0))
                  /\ result' = Response("validateSocialLogin", "ok", created,
                                        sign(created, "user"), args)
        /\ UNCHANGED <<forgots, pending, reqs, mails, succeeded, confirmed>>

\* socialData is what the selected provider service returns for the tokens.
validateSocialLogin(socialType, socialData) ==
    LET args == [NoArgs EXCEPT !.socialType = socialType, !.socialId = socialData.id,
                               !.email = socialData.email]
        email == IF socialData.email = NULL THEN NULL ELSE toLowerCase(socialData.email)
        userByEmail == FindOne(UsersByEmail(email))
        user == FindOne(UsersBySocial(socialData.id, socialType))
        created == Len(users) + 1
    IN  /\ IF socialType \notin {"facebook", "google", "twitter", "apple"}
             THEN /\ result' = Response("validateSocialLogin", "Invalid_socialType",
                                        0, NoToken, args)
                  /\ users' = users
           ELSE IF user # 0
             THEN /\ users' = IF socialData.email # NULL /\ userByEmail = 0
                                THEN [users EXCEPT ![user].email = email]
                                ELSE users
                  /\ result' = Response("validateSocialLogin", "ok", user,
                                        sign(user, users[user].role), args)
           ELSE IF userByEmail # 0
             THEN /\ users' = users
                  /\ result' = Response("validateSocialLogin", "ok", userByEmail,
                                        sign(userByEmail, users[userByEmail].role), args)
           ELSE   /\ Len(users) < MaxUsers
                  /\ users' = Append(users, NewUser(email, NULL, "user", "active",
                                                    socialType, socialData.id, 0))
                  /\ result' = Response("validateSocialLogin", "ok", created,
                                        sign(created, "user"), args)
        /\ UNCHANGED <<forgots, pending, reqs, mails, succeeded, confirmed>>

(* -------------------------------- register ----------------------------- *)
register(email, password) ==
    LET args == [NoArgs EXCEPT !.email = email, !.password = password]
        hash == randomHash("confirm-email")
        lower == toLowerCase(email)
    IN  IF EmailInUse(lower)
          THEN /\ result' = Response("register", "error", 0, NoToken, args)
               /\ UNCHANGED <<users, forgots, pending, reqs, mails, succeeded, confirmed>>
          ELSE /\ Len(users) < MaxUsers
               /\ users' = Append(users, NewUser(lower, HashPassword(password), "user",
                                                 "inactive", "email", NULL, hash))
               /\ mails' = mails \cup {[to |-> lower, template |-> "activation",
                                        path |-> "confirm-email", hash |-> hash]}
               /\ result' = Response("register", "ok", 0, NoToken,
                                     [args EXCEPT !.hash = hash, !.id = Len(users) + 1])
               /\ UNCHANGED <<forgots, pending, reqs, succeeded, confirmed>>

(* ------------------------------ confirmEmail --------------------------- *)
\* user.save() at line 236 is not awaited: the handler returns with the
\* write of (hash = null, status = active) still to be committed.
confirmEmail(hash) ==
    LET user == FindOne(UsersByHash(hash))
        args == [NoArgs EXCEPT !.hash = hash]
        save == [kind |-> "confirm", user |-> user, password |-> NULL]
    IN  IF user = 0
          THEN /\ result' = Response("confirmEmail", "NotFound", 0, NoToken, args)
               /\ UNCHANGED <<users, forgots, pending, reqs, mails, succeeded, confirmed>>
          ELSE /\ save \in pending \/ Cardinality(pending) < MaxPending
               /\ pending' = pending \cup {save}
               /\ confirmed' = confirmed \cup {hash}
               /\ result' = Response("confirmEmail", "ok", user, NoToken, args)
               /\ UNCHANGED <<users, forgots, reqs, mails, succeeded>>

(* ----------------------------- forgotPassword -------------------------- *)
\* forgotPassword that looks the account up by the e-mail as given.
forgotPasswordNoLowerCase(email) ==
    LET user == FindOne(UsersByEmail(email))
        args == [NoArgs EXCEPT !.email = email]
        hash == randomHash("password-change")
    IN  IF user = 0
          THEN /\ result' = Response("forgotPassword", "NotFound_email", 0, NoToken, args)
               /\ UNCHANGED <<users, forgots, pending, reqs, mails, succeeded, confirmed>>
          ELSE /\ Len(forgots) < MaxForgots
               /\ forgots' = Append(forgots, [hash |-> hash, user |-> user,
                                              deletedAt |-> FALSE])
               /\ succeeded' = Append(succeeded, 0)
               /\ mails' = mails \cup {[to |-> email, template |-> "reset-password",
                                        path |-> "password-change", hash |-> hash]}
               /\ result' = Response("forgotPassword", "ok", user, NoToken,
                                     [args EXCEPT !.hash = hash])
               /\ UNCHANGED <<users, pending, reqs, confirmed>>

forgotPassword(email) ==
    LET user == FindOne(UsersByEmail(toLowerCase(email)))
        args == [NoArgs EXCEPT !.email = email]
        hash == randomHash("password-change")
    IN  IF user = 0
          THEN /\ result' = Response("forgotPassword", "NotFound_email", 0, NoToken, args)
               /\ UNCHANGED <<users, forgots, pending, reqs, mails, succeeded, confirmed>>
          ELSE /\ Len(forgots) < MaxForgots
               /\ forgots' = Append(forgots, [hash |-> hash, user |-> user,
                                              deletedAt |-> FALSE])
               /\ succeeded' = Append(succeeded, 0)
               /\ mails' = mails \cup {[to |-> email, template |-> "reset-password",
                                        path |-> "password-change", hash |-> hash]}
               /\ result' = Response("forgotPassword", "ok", user, NoToken,
                                     [args EXCEPT !.hash = hash])
               /\ UNCHANGED <<users, pending, reqs, confirmed>>

(* ------------------------------ resetPassword -------------------------- *)
\* Lines 282-298: the ticket is read; when it is there, forgot.user (the row
\* the ticket refers to, loaded with it) gets the new password and
\* user.save() is started without await.
ResetFind(r, hash, password) ==
    LET forgot == FindOne(ForgotsByHash(hash))
        args == [NoArgs EXCEPT !.hash = hash]
        save == [kind |-> "password", user |-> forgots[forgot].user,
                 password |-> HashPassword(password)]
    IN  /\ r = FindOne({q \in Reqs : reqs[q].pc = "idle"})
        /\ IF forgot = 0
             THEN /\ result' = Response("resetPassword", "NotFound", 0, NoToken, args)
                  /\ UNCHANGED <<pending, reqs>>
             ELSE /\ save \in pending \/ Cardinality(pending) < MaxPending
                  /\ pending' = pending \cup {save}
                  /\ reqs' = [reqs EXCEPT ![r] = [pc |-> "softDelete", forgot |-> forgot,
                                                  hash |-> hash, password |-> password]]
                  /\ result' = Response("resetPassword", "pending", 0, NoToken,
                                        [args EXCEPT !.password = password])
        /\ UNCHANGED <<users, forgots, mails, succeeded, confirmed>>

\* Line 299: await this.forgotRepository.softDelete(forgot.id), then return.
ResetSoftDelete(r) ==
    LET forgot == reqs[r].forgot
    IN  /\ reqs[r].pc = "softDelete"
        /\ forgots' = [forgots EXCEPT ![forgot].deletedAt = TRUE]
        /\ succeeded' = [succeeded EXCEPT ![forgot] = @ + 1]
        /\ reqs' = [reqs EXCEPT ![r] = IdleReq]
        /\ result' = Response("resetPassword", "ok", forgots[forgot].user, NoToken,
                              [NoArgs EXCEPT !.hash = reqs[r].hash,
                                             !.password = reqs[r].password,
                                             !.id = forgot])
        /\ UNCHANGED <<users, pending, mails, confirmed>>

\* The commit of a write started by an un-awaited user.save().
SaveCommit(save) ==
    /\ save \in pending
    /\ pending' = pending \ {save}
    /\ users' = IF save.kind = "password"
                  THEN [users EXCEPT ![save.user].password = save.password]
                  ELSE [users EXCEPT ![save.user].hash = 0,
                                     ![save.user].status = "active"]
    /\ result' = Response("save", "ok", save.user, NoToken, NoArgs)
    /\ UNCHANGED <<forgots, reqs, mails, succeeded, confirmed>>

(* ------------------------------ profile -------------------------------- *)
me(id) ==
    /\ result' = Response("me", "ok", IF id \in Visible THEN id ELSE 0, NoToken,
                          [NoArgs EXCEPT !.id = id])
    /\ UNCHANGED <<users, forgots, pending, reqs, mails, succeeded, confirmed>>

\* userDto carries the fields to change; a password in it goes through the
\* entity's hashing hook on save.
update(id, password) ==
    /\ users' = IF password = NULL THEN users
                ELSE [users EXCEPT ![id].password = HashPassword(password)]
    /\ result' = Response("update", "ok", IF id \in Visible THEN id ELSE 0, NoToken,
                          [NoArgs EXCEPT !.id = id, !.password = password])
    /\ UNCHANGED <<forgots, pending, reqs, mails, succeeded, confirmed>>

softDelete(id) ==
    /\ users' = [users EXCEPT ![id].deletedAt = TRUE]
    /\ result' = Response("softDelete", "ok", 0, NoToken, [NoArgs EXCEPT !.id = id])
    /\ UNCHANGED <<forgots, pending, reqs, mails, succeeded, confirmed>>

(* ------------------------------ behaviours ----------------------------- *)
\* The hashes a caller can present to the endpoint of a mailed link: those
\* mailed out with that link, and one never issued.
Hashes(path) == {m.hash : m \in {x \in mails : x.path = path}} \cup {1}

\* Requests arrive one at a time: a handler starts when none is running.
\* The writes of un-awaited saves commit whenever they commit.
Next ==
    \/ \E e \in Emails, p \in Passwords, a \in BOOLEAN :
          AllIdle /\ validateLogin(e, p, a)
    \/ \E t \in SocialTypes, d \in Profiles : AllIdle /\ validateSocialLogin(t, d)
    \/ \E e \in Emails, p \in Passwords : AllIdle /\ register(e, p)
    \/ \E h \in Hashes("confirm-email") : AllIdle /\ confirmEmail(h)
    \/ \E e \in Emails : AllIdle /\ forgotPassword(e)
    \/ \E r \in Reqs, h \in Hashes("password-change"), p \in Passwords :
          AllIdle /\ ResetFind(r, h, p)
    \/ \E r \in Reqs : ResetSoftDelete(r)
    \/ \E s \in pending : SaveCommit(s)
    \/ \E i \in UserIds : AllIdle /\ me(i)
    \/ \E i \in UserIds, p \in Passwords \cup {NULL} : AllIdle /\ update(i, p)
    \/ \E i \in UserIds : AllIdle /\ softDelete(i)

Spec == Init /\ [][Next]_vars

\* resetPassword requests overlap: each is at its own step.
NextConcurrent ==
    \/ \E e \in Emails, p \in Passwords, a \in BOOLEAN : validateLogin(e, p, a)
    \/ \E e \in Emails, p \in Passwords : register(e, p)
    \/ \E e \in Emails : forgotPassword(e)
    \/ \E r \in Reqs, h \in Hashes("password-change"), p \in Passwords : ResetFind(r, h, p)
    \/ \E r \in Reqs : ResetSoftDelete(r)
    \/ \E s \in pending : SaveCommit(s)

SpecConcurrent == Init /\ [][NextConcurrent]_vars

(* ------------------------------ properties ----------------------------- *)
Eligible(onlyAdmin) == IF onlyAdmin THEN {"admin"} ELSE {"user"}
SocialProviders == {"facebook", "google", "twitter", "apple"}

\* The accounts a login with arguments a may match, in the state before it.
Candidates(a) ==
    {i \in Visible : /\ users[i].email = toLowerCase(a.email)
                     /\ users[i].role \in Eligible(a.onlyAdmin)}

\* The accounts a social login with arguments a matches by identity, by e-mail.
ByIdentity(a) ==
    {i \in Visible : users[i].socialId = a.socialId /\ users[i].provider = a.socialType}
ByEmail(a) ==
    {i \in Visible : a.email # NULL /\ users[i].email = toLowerCase(a.email)}

StoreUnchanged ==
    /\ users' = users
    /\ forgots' = forgots
    /\ pending' = pending
    /\ mails' = mails

\* C1: in a sequential execution, a resetPassword(h, p) call that finds a valid
\* ticket returns with the owner's stored password set to (the hash of) p and
\* the ticket soft-deleted; a resetPassword call with the hash of a ticket
\* that a call has already consumed fails with NotFound and starts no write.
C1_ResetThenNotFound ==
    [][result'.op = "resetPassword" =>
         LET a == result'.args
             valid == ForgotsByHash(a.hash)
             used == {f \in ForgotIds : forgots[f].hash = a.hash /\ succeeded[f] > 0}
         IN  /\ result'.outcome = "ok" =>
                  /\ forgots'[a.id].deletedAt
                  /\ users'[forgots[a.id].user].password = HashPassword(a.password)
             /\ result'.outcome = "pending" => valid # {} /\ used = {}
             /\ result'.outcome = "NotFound" => valid = {} /\ StoreUnchanged
             /\ used # {} => result'.outcome = "NotFound" /\ StoreUnchanged
    ]_vars

\* C2: whatever the interleaving of concurrent resetPassword requests, at most
\* one of them completes successfully for a given ticket.
C2_AtMostOneReset == \A f \in ForgotIds : succeeded[f] <= 1

\* C3: confirmEmail(h) for a pending hash h returns with the account active and
\* its hash cleared; once a confirmEmail(h) call has returned normally, every
\* later confirmEmail(h) fails with NotFound and changes no account.
C3_ConfirmEmailSingleUse ==
    [][result'.op = "confirmEmail" =>
         LET h == result'.args.hash
             owner == UsersByHash(h)
         IN  IF h \in confirmed
               THEN result'.outcome = "NotFound" /\ StoreUnchanged
             ELSE IF owner = {}
               THEN result'.outcome = "NotFound" /\ StoreUnchanged
             ELSE /\ result'.outcome = "ok"
                  /\ result'.user \in owner
                  /\ users'[result'.user].status = "active"
                  /\ users'[result'.user].hash = 0
    ]_vars

\* C4: validateLogin has exactly three outcomes: NotFound(email) when no
\* account has the lowercased e-mail and an eligible role, Invalid(password)
\* when such an account exists and the password does not match its stored
\* hash, otherwise that account with a token of its id and role; a role
\* outside the eligible set never gets a token, and the store is unchanged.
C4_ValidateLoginOutcomes ==
    [][result'.op = "validateLogin" =>
         LET a == result'.args
             c == Candidates(a)
             good == {i \in c : users[i].password = HashPassword(a.password)}
         IN  /\ StoreUnchanged
             /\ IF c = {}
                  THEN result'.outcome = "NotFound_email" /\ result'.token = NoToken
                ELSE IF good = {}
                  THEN result'.outcome = "Invalid_password" /\ result'.token = NoToken
                ELSE /\ result'.outcome = "ok"
                     /\ result'.user \in good
                     /\ result'.token = sign(result'.user, users[result'.user].role)
             /\ result'.token # NoToken => result'.token.role \in Eligible(a.onlyAdmin)
    ]_vars

\* C5: when an account with the profile's (provider, socialId) exists,
\* validateSocialLogin returns it, whoever holds the profile's e-mail, creates
\* no account, and sets its e-mail to the lowercased profile e-mail exactly
\* when the profile has an e-mail that no existing account holds; nothing else
\* changes.
C5_IdentityMatchFirst ==
    [][(result'.op = "validateSocialLogin" /\ ByIdentity(result'.args) # {}) =>
         LET a == result'.args
             u == result'.user
         IN  /\ result'.outcome = "ok"
             /\ u \in ByIdentity(a)
             /\ result'.token = sign(u, users[u].role)
             /\ Len(users') = Len(users)
             /\ users' = IF a.email # NULL /\ ByEmail(a) = {}
                           THEN [users EXCEPT ![u].email = toLowerCase(a.email)]
                           ELSE users
    ]_vars

C5_Witness ==
    /\ result.op = "validateSocialLogin"
    /\ result.outcome = "ok"
    /\ result.user \in ByIdentity(result.args)
    /\ \E j \in ByEmail(result.args) : j # result.user

\* C6: with no identity match and an account holding the lowercased profile
\* e-mail, validateSocialLogin returns that account with a token of its id and
\* changes no account; an account is created only when neither lookup finds
\* one, and it has role user, status active, the given provider and socialId.
C6_LinkByEmailOrCreate ==
    [][result'.op = "validateSocialLogin" =>
         LET a == result'.args
             u == result'.user
         IN  /\ (a.socialType \in SocialProviders /\ ByIdentity(a) = {} /\ ByEmail(a) # {}) =>
                  /\ result'.outcome = "ok"
                  /\ u \in ByEmail(a)
                  /\ result'.token.id = u
                  /\ users' = users
             /\ Len(users') # Len(users) =>
                  /\ ByIdentity(a) = {} /\ ByEmail(a) = {}
                  /\ users' = Append(users, users'[u])
                  /\ users'[u].role = "user" /\ users'[u].status = "active"
                  /\ users'[u].provider = a.socialType /\ users'[u].socialId = a.socialId
    ]_vars

C6_Witness ==
    /\ result.op = "validateSocialLogin"
    /\ result.outcome = "ok"
    /\ ByIdentity(result.args) = {}
    /\ result.user \in ByEmail(result.args)
    /\ Len(users) > 1

\* C7: register issues no token and leaves the account inactive with a hash,
\* and validateLogin issues no token for an account whose status is inactive.
C7_NoTokenWhileInactive ==
    /\ (result.op = "register" /\ result.outcome = "ok") =>
          /\ result.token = NoToken
          /\ users[result.args.id].status = "inactive"
          /\ users[result.args.id].hash # 0
    /\ (result.op = "validateLogin" /\ result.outcome = "ok") =>
          users[result.user].status = "active"

\* A soft-deleted row stays in the table with its marker set.
MarkerKept ==
    \A i \in UserIds : users[i].deletedAt => i \in DOMAIN users' /\ users'[i].deletedAt

\* C8 as stated: once an account is soft-deleted, every validateLogin with its
\* e-mail fails with NotFound(email) and issues no token; the row stays, marked.
C8_DeletedEmailNeverLogsIn ==
    [][/\ result'.op = "validateLogin" =>
            \A i \in UserIds :
               (users[i].deletedAt /\ users[i].email = toLowerCase(result'.args.email))
                 => result'.outcome = "NotFound_email" /\ result'.token = NoToken
       /\ MarkerKept
    ]_vars

\* C8 (amended): once an account is soft-deleted, no validateLogin returns it
\* or a token with its id, and a validateLogin with its e-mail fails with
\* NotFound(email) whenever no account that is not soft-deleted holds that
\* e-mail; the row stays in the table with its marker set.
C8_DeletedAccountNeverLogsIn ==
    [][/\ result'.op = "validateLogin" =>
            \A i \in UserIds : users[i].deletedAt =>
               /\ result'.user # i
               /\ result'.token.id # i
               /\ (/\ users[i].email = toLowerCase(result'.args.email)
                   /\ \A j \in UserIds : users[j].deletedAt \/ users[j].email # users[i].email)
                    => result'.outcome = "NotFound_email" /\ result'.token = NoToken
       /\ MarkerKept
    ]_vars

C8_Witness ==
    /\ result.op = "validateLogin"
    /\ result.outcome = "NotFound_email"
    /\ \E i \in UserIds :
          /\ users[i].deletedAt
          /\ users[i].email = toLowerCase(result.args.email)
          /\ users[i].role \in Eligible(result.args.onlyAdmin)
          /\ users[i].password = HashPassword(result.args.password)

\* C9: forgotPassword(E) with no account for lowercase(E) fails with
\* NotFound(email) and creates no ticket and sends no mail; with an account it
\* appends exactly one ticket for that account, sends exactly one mail, whose
\* URL has that ticket's hash, and leaves every earlier ticket as it was.
C9_ForgotPassword ==
    [][result'.op = "forgotPassword" =>
         LET a == result'.args
             n == Len(forgots) + 1
         IN  /\ users' = users
             /\ IF ByEmail(a) = {}
                  THEN /\ result'.outcome = "NotFound_email"
                       /\ forgots' = forgots
                       /\ mails' = mails
                ELSE /\ result'.outcome = "ok"
                     /\ forgots' = Append(forgots, forgots'[n])
                     /\ forgots'[n].user \in ByEmail(a)
                     /\ ~forgots'[n].deletedAt
                     /\ \A f \in ForgotIds : forgots[f].hash # forgots'[n].hash
                     /\ mails \subseteq mails'
                     /\ Cardinality(mails' \ mails) = 1
                     /\ \A m \in mails' \ mails :
                           /\ m.template = "reset-password"
                           /\ m.path = "password-change"
                           /\ m.hash = forgots'[n].hash
    ]_vars

C9_Witness ==
    /\ result.op = "forgotPassword"
    /\ result.outcome = "ok"
    /\ Len(forgots) = 2
    /\ forgots[1].user = forgots[2].user
    /\ ~forgots[1].deletedAt
    /\ forgots[2].hash = result.args.hash
    /\ \E m \in mails : m.hash = result.args.hash /\ m.template = "reset-password"

\* C10: when a resetPassword(h, p) call soft-deletes its ticket, the owning
\* account's stored password is already (the hash of) p and the write of it
\* is no longer pending.
C10_PasswordBeforeTicket ==
    [][\A f \in ForgotIds : (~forgots[f].deletedAt /\ forgots'[f].deletedAt) =>
          /\ users'[forgots[f].user].password = HashPassword(result'.args.password)
          /\ \A s \in pending' : ~(s.kind = "password" /\ s.user = forgots[f].user)
    ]_vars
====
